---- MODULE Spec2Model ----
(***************************************************************************)
(* A model of the style cascade, the box tree builder and the block layout *)
(* solver of the browser engine (src/src/dom.rs, css.rs, style.rs,         *)
(* layout.rs).                                                             *)
(*                                                                         *)
(* Strings whose characters matter (the "class" attribute, class names)    *)
(* are sequences of one-character strings.  An Option<T> is a sequence of  *)
(* at most one element, as Option::iter() sees it.  A HashMap is a         *)
(* function whose DOMAIN is its key set.                                   *)
(***************************************************************************)
EXTENDS Integers, Sequences, FiniteSets, TLC

VARIABLES
    element,      \* dom::Element the selector matcher / cascade works on
    matchSel,     \* Option<Selector>: the selector handed to matches()
    matchResult,  \* the bool matches() returned
    stylesheet,   \* css::Stylesheet.rules, as parsed so far
    matched,      \* the Vec<MatchedRule> matching_rules() returned
    values,       \* the PropertyMap specified_values() returned
    document,     \* the DOM tree: Nodes in document order, root first
    pcStyle,      \* position of the parse / style pass
    styled,       \* the style tree: StyledNodes in document order, root first
    displayNode,  \* the StyledNode display() was last called on (0: none yet)
    displayResult,\* the Display it returned
    boxes,        \* the layout tree: LayoutBoxes in creation order, root first
    panicked,     \* build_layout_tree panicked
    pcBuild,      \* position of the box tree builder
    viewport,     \* the Dimensions of the initial containing block
    stack,        \* the call stack of the layout pass, innermost call last
    locals,       \* the locals of calculate_block_width when it last returned
    trace,        \* the steps of the layout pass so far, oldest first
    pcLayout,     \* position of the layout pass
    source,       \* the selector list parse_selectors was given, in source order
    display_list, \* the DisplayList build_display_list returned
    asked,        \* the boxes whose styled node the painter has asked for
    pcPaint       \* position of the painter

styleVars == <<element, matchSel, matchResult, stylesheet, matched, values, document, pcStyle>>

boxVars == <<styled, displayNode, displayResult, boxes, panicked, pcBuild>>

layoutVars == <<viewport, stack, locals, trace, pcLayout>>

parseVars == <<source>>

paintVars == <<display_list, asked, pcPaint>>

vars == <<styleVars, boxVars, layoutVars, parseVars, paintVars>>

----------------------------------------------------------------------------
\* Bounds of the model.

\* longest "class" attribute value, in characters
MaxClassAttrLen == 3
\* most rules in a stylesheet
MaxRules == 2
\* most nodes of a style tree handed to the box tree builder
MaxNodes == 4
\* most nodes of a style tree that is laid out
MaxLayoutNodes == 3
\* the calls the stack holds before it overflows
MaxStack == 5
\* most nodes of a document
MaxDocNodes == 3
\* most selectors in a comma-separated selector list that is sorted
MaxSelectors == 3

----------------------------------------------------------------------------
\* dom.rs

None == <<>>
Some(x) == <<x>>

\* Characters of an attribute value: two identifier characters, the space
\* and one other whitespace character (a tab).
Chars == {"a", "b", " ", "\t"}
Whitespace == {" ", "\t"}

\* str::split(' '): the pieces between separators, empty pieces included.
RECURSIVE split_from(_, _, _, _)
split_from(s, sep, i, cur) ==
    IF i > Len(s) THEN <<cur>>
    ELSE IF s[i] = sep THEN <<cur>> \o split_from(s, sep, i + 1, <<>>)
    ELSE split_from(s, sep, i + 1, Append(cur, s[i]))

split(s, sep) == split_from(s, sep, 1, <<>>)

\* Element::id
id(elem) ==
    IF "id" \in DOMAIN elem.attributes THEN Some(elem.attributes["id"]) ELSE None

\* a plausible slip: every whitespace character separates class names
classes_ws(elem) ==
    IF "class" \in DOMAIN elem.attributes
    THEN LET s == elem.attributes["class"]
             t == [i \in 1..Len(s) |-> IF s[i] \in Whitespace THEN " " ELSE s[i]]
             p == split(t, " ")
         IN {p[i] : i \in 1..Len(p)}
    ELSE {}

\* Element::classes
classes(elem) ==
    IF "class" \in DOMAIN elem.attributes
    THEN LET p == split(elem.attributes["class"], " ") IN {p[i] : i \in 1..Len(p)}
    ELSE {}

----------------------------------------------------------------------------
\* css.rs

\* css::Value: Keyword(s), Length(n, unit s), ColorValue(rgb s, alpha n).
\* The f32 of a Length is counted in half pixels: the lengths of a style
\* sheet are whole pixels here and the layout solver only adds, subtracts and
\* halves, so every f32 of the model is a whole number of half pixels.
Keyword(s) == [kind |-> "Keyword", s |-> s, n |-> 0]
Px(f) == [kind |-> "Length", s |-> "Px", n |-> f]
Length(px) == Px(2 * px)
ColorValue(rgb) == [kind |-> "ColorValue", s |-> rgb, n |-> 255]

Declaration(name, value) == [name |-> name, value |-> value]

\* a plausible slip: the class count is put first
specificity_classes_first(sel) == <<Len(sel.class), Len(sel.id), Len(sel.tag_name)>>

\* Selector::specificity
specificity(sel) == <<Len(sel.id), Len(sel.class), Len(sel.tag_name)>>

\* Ord on Specificity = (usize, usize, usize): lexicographic
spec_lt(a, b) ==
    \/ a[1] < b[1]
    \/ a[1] = b[1] /\ a[2] < b[2]
    \/ a[1] = b[1] /\ a[2] = b[2] /\ a[3] < b[3]

spec_le(a, b) == a = b \/ spec_lt(a, b)

\* an insertion that puts x before the elements of equal key
RECURSIVE insert_by_specificity_unstable(_, _)
insert_by_specificity_unstable(sorted, x) ==
    IF sorted = <<>> THEN <<x>>
    ELSE LET last == sorted[Len(sorted)] IN
         IF spec_lt(specificity(last), specificity(x))
         THEN Append(sorted, x)
         ELSE Append(insert_by_specificity_unstable(SubSeq(sorted, 1, Len(sorted) - 1), x),
                     last)

\* slice::sort_by_key(|s| s.specificity()): stable, ascending.  Insert x
\* behind every element whose key is not greater.
RECURSIVE insert_by_specificity(_, _)
insert_by_specificity(sorted, x) ==
    IF sorted = <<>> THEN <<x>>
    ELSE LET last == sorted[Len(sorted)] IN
         IF spec_le(specificity(last), specificity(x))
         THEN Append(sorted, x)
         ELSE Append(insert_by_specificity(SubSeq(sorted, 1, Len(sorted) - 1), x), last)

RECURSIVE sort_by_specificity(_)
sort_by_specificity(s) ==
    IF s = <<>> THEN <<>>
    ELSE insert_by_specificity(sort_by_specificity(SubSeq(s, 1, Len(s) - 1)), s[Len(s)])

\* Parser::parse_selectors, from the simple selectors in source order
parse_selectors(src) == sort_by_specificity(src)

----------------------------------------------------------------------------
\* style.rs: selector matching

\* matches_simple_selector
matches_simple_selector(elem, selector) ==
    IF \E i \in 1..Len(selector.tag_name) : elem.tag_name # selector.tag_name[i]
    THEN FALSE
    ELSE IF \E i \in 1..Len(selector.id) : id(elem) # Some(selector.id[i])
    THEN FALSE
    ELSE IF \E i \in 1..Len(selector.class) : selector.class[i] \notin classes(elem)
    THEN FALSE
    ELSE TRUE

\* matches: the only Selector variant is Simple
matches(elem, selector) == matches_simple_selector(elem, selector)

----------------------------------------------------------------------------
\* style.rs: the cascade

\* match_rule: the first selector of the rule, in stored order, that matches.
\* A rule is named by its index in the stylesheet.
match_rule(elem, rules, r) ==
    LET sels == rules[r].selectors
        hits == {i \in 1..Len(sels) : matches(elem, sels[i])}
    IN IF hits = {} THEN None
       ELSE LET first == CHOOSE i \in hits : \A j \in hits : i <= j
            IN Some([specificity |-> specificity(sels[first]), rule |-> r])

\* matching_rules: filter_map over the rules, in stylesheet order
RECURSIVE matching_rules_upto(_, _, _)
matching_rules_upto(elem, rules, n) ==
    IF n = 0 THEN <<>>
    ELSE matching_rules_upto(elem, rules, n - 1) \o match_rule(elem, rules, n)

matching_rules(elem, rules) == matching_rules_upto(elem, rules, Len(rules))

\* rules.sort_by(|&(a, _), &(b, _)| a.cmp(&b)): stable, ascending
RECURSIVE insert_matched(_, _)
insert_matched(sorted, x) ==
    IF sorted = <<>> THEN <<x>>
    ELSE LET last == sorted[Len(sorted)] IN
         IF spec_le(last.specificity, x.specificity)
         THEN Append(sorted, x)
         ELSE Append(insert_matched(SubSeq(sorted, 1, Len(sorted) - 1), x), last)

RECURSIVE sort_matched(_)
sort_matched(s) ==
    IF s = <<>> THEN <<>>
    ELSE insert_matched(sort_matched(SubSeq(s, 1, Len(s) - 1)), s[Len(s)])

\* HashMap::insert
insert(map, k, v) == [x \in DOMAIN map \cup {k} |-> IF x = k THEN v ELSE map[x]]

EmptyMap == [x \in {} |-> 0]

RECURSIVE insert_declarations(_, _, _)
insert_declarations(map, decls, i) ==
    IF i > Len(decls) THEN map
    ELSE insert_declarations(insert(map, decls[i].name, decls[i].value), decls, i + 1)

RECURSIVE apply_rules(_, _, _, _)
apply_rules(map, rules, sorted, i) ==
    IF i > Len(sorted) THEN map
    ELSE apply_rules(insert_declarations(map, rules[sorted[i].rule].declarations, 1),
                     rules, sorted, i + 1)

\* specified_values
specified_values(elem, rules) ==
    apply_rules(EmptyMap, rules, sort_matched(matching_rules(elem, rules)), 1)

\* NodeType::Text(data), NodeType::Element(element) and Node
Text(data) == [kind |-> "Text", data |-> data]
ElementNode(e) == [kind |-> "Element", element |-> e]
Node(node_type, children) == [node_type |-> node_type, children |-> children]

RECURSIVE style_tree(_, _, _, _)
\* a plausible slip: a Text node is styled like an element without attributes
style_tree_text_matched(dom, n, rules, tree) ==
    LET self == Len(tree) + 1
        root == dom[n]
        styled_node ==
            [node |-> n,
             specified_values |->
                 IF root.node_type.kind = "Element"
                 THEN specified_values(root.node_type.element, rules)
                 ELSE specified_values([tag_name |-> "p", attributes |-> EmptyMap], rules),
             children |-> <<>>]
        style_children[i \in 0..Len(root.children)] ==
            IF i = 0 THEN Append(tree, styled_node)
            ELSE LET child == style_tree(dom, root.children[i], rules, style_children[i - 1])
                 IN [child.tree EXCEPT ![self].children = Append(@, child.root)]
    IN [tree |-> style_children[Len(root.children)], root |-> self]

\* style_tree(root, stylesheet), root being node n of the DOM tree dom: the
\* StyledNode of n is appended to the style tree `tree`, then the StyledNodes
\* of the children of n in their order, each pushed to the children of n's.
style_tree(dom, n, rules, tree) ==
    LET self == Len(tree) + 1
        root == dom[n]
        styled_node ==
            [node |-> n,
             specified_values |->
                 IF root.node_type.kind = "Element"
                 THEN specified_values(root.node_type.element, rules)
                 ELSE EmptyMap,
             children |-> <<>>]
        style_children[i \in 0..Len(root.children)] ==
            IF i = 0 THEN Append(tree, styled_node)
            ELSE LET child == style_tree(dom, root.children[i], rules, style_children[i - 1])
                 IN [child.tree EXCEPT ![self].children = Append(@, child.root)]
    IN [tree |-> style_children[Len(root.children)], root |-> self]

----------------------------------------------------------------------------
\* style.rs: styled nodes.  A StyledNode is [specified_values, children], its
\* children named by their index in the style tree.

\* StyledNode::value
value(node, name) ==
    IF name \in DOMAIN node.specified_values
    THEN Some(node.specified_values[name])
    ELSE None

\* StyledNode::lookup
lookup(node, name, fallback_name, default) ==
    IF value(node, name) # None THEN value(node, name)[1]
    ELSE IF value(node, fallback_name) # None THEN value(node, fallback_name)[1]
    ELSE default

\* a plausible slip: a node without a keyword `display` is a block
display_default_block(node) ==
    LET v == value(node, "display") IN
    IF v # None /\ v[1].kind = "Keyword"
    THEN CASE v[1].s = "block" -> "Block"
           [] v[1].s = "none" -> "None"
           [] OTHER -> "Inline"
    ELSE "Block"

\* StyledNode::display
display(node) ==
    LET v == value(node, "display") IN
    IF v # None /\ v[1].kind = "Keyword"
    THEN CASE v[1].s = "block" -> "Block"
           [] v[1].s = "none" -> "None"
           [] OTHER -> "Inline"
    ELSE "Inline"

----------------------------------------------------------------------------
\* layout.rs: the box tree builder.  A LayoutBox is [dimensions, box_type,
\* node, children]: node is the StyledNode a BlockNode or InlineNode refers
\* to (0 for an AnonymousBlock), children are indices into the tree.

EdgeSizesZero == [left |-> 0, right |-> 0, top |-> 0, bottom |-> 0]

\* Default::default() for Dimensions
DimensionsDefault ==
    [content |-> [x |-> 0, y |-> 0, width |-> 0, height |-> 0],
     padding |-> EdgeSizesZero, border |-> EdgeSizesZero, margin |-> EdgeSizesZero]

\* LayoutBox::new
LayoutBoxNew(box_type, node) ==
    [dimensions |-> DimensionsDefault, box_type |-> box_type, node |-> node,
     children |-> <<>>]

\* a plausible slip: the child replaces the children instead of joining them
push_replace(tree, parent, child) ==
    [tree EXCEPT ![parent].children = <<child>>]

\* Vec::push on the children of box `parent`
push(tree, parent, child) ==
    [tree EXCEPT ![parent].children = Append(@, child)]

\* The pattern of line 159, Some(&LayoutBox { box_type: AnonymousBlock, .. }),
\* applied to self.children.last().  layout.rs brings no AnonymousBlock into
\* scope (the variants are written BoxType::AnonymousBlock everywhere else),
\* so the identifier is a binding, which every box_type matches: the pattern
\* matches whenever there is a last child.
last_is_anonymous_block(tree, self) == tree[self].children # <<>>

\* LayoutBox::get_inline_container: the tree, with an AnonymousBlock pushed
\* where the code pushes one, and the box the new inline child goes to
get_inline_container(tree, self) ==
    IF tree[self].box_type \in {"InlineNode", "AnonymousBlock"}
    THEN [tree |-> tree, container |-> self]
    ELSE LET t == IF last_is_anonymous_block(tree, self)
                  THEN tree
                  ELSE push(Append(tree, LayoutBoxNew("AnonymousBlock", 0)),
                            self, Len(tree) + 1)
         IN [tree |-> t, container |-> t[self].children[Len(t[self].children)]]

Panic == [panic |-> TRUE, tree |-> <<>>, root |-> 0]

RECURSIVE build_layout_tree(_, _, _)

\* a plausible slip: a display:none child is built and attached like a block
attach_child_none_too(st, tree, root, child) ==
    IF display(st[child]) = "Inline"
    THEN LET c == get_inline_container(tree, root)
             r == build_layout_tree(st, c.tree, child)
         IN IF r.panic THEN Panic
            ELSE [panic |-> FALSE, tree |-> push(r.tree, c.container, r.root), root |-> root]
    ELSE LET r == build_layout_tree(st, tree, child)
         IN IF r.panic THEN Panic
            ELSE [panic |-> FALSE, tree |-> push(r.tree, root, r.root), root |-> root]

\* build_layout_tree, lines 127-131: one child of the loop.  A panic in the
\* recursive call unwinds the whole build.
attach_child(st, tree, root, child) ==
    CASE display(st[child]) = "Block" ->
             LET r == build_layout_tree(st, tree, child)
             IN IF r.panic THEN Panic
                ELSE [panic |-> FALSE, tree |-> push(r.tree, root, r.root), root |-> root]
      [] display(st[child]) = "Inline" ->
             LET c == get_inline_container(tree, root)
                 r == build_layout_tree(st, c.tree, child)
             IN IF r.panic THEN Panic
                ELSE [panic |-> FALSE, tree |-> push(r.tree, c.container, r.root),
                      root |-> root]
      [] display(st[child]) = "None" ->
             [panic |-> FALSE, tree |-> tree, root |-> root]

\* build_layout_tree, lines 126-132: the loop over the children
RECURSIVE build_children(_, _, _, _, _)
build_children(st, tree, root, kids, i) ==
    IF i > Len(kids) THEN [panic |-> FALSE, tree |-> tree, root |-> root]
    ELSE LET r == attach_child(st, tree, root, kids[i])
         IN IF r.panic THEN Panic
            ELSE build_children(st, r.tree, root, kids, i + 1)

\* build_layout_tree for StyledNode n of style tree st, its boxes added to
\* `tree`: [panic, tree, root]
build_layout_tree(st, tree, n) ==
    CASE display(st[n]) = "None" -> Panic
      [] display(st[n]) = "Block" ->
             build_children(st, Append(tree, LayoutBoxNew("BlockNode", n)),
                            Len(tree) + 1, st[n].children, 1)
      [] display(st[n]) = "Inline" ->
             build_children(st, Append(tree, LayoutBoxNew("InlineNode", n)),
                            Len(tree) + 1, st[n].children, 1)

----------------------------------------------------------------------------
\* layout.rs: the block layout solver.  Every f32 is counted in half pixels.

\* Value::to_px
to_px(v) == IF v.kind = "Length" /\ v.s = "Px" THEN v.n ELSE 0

\* the f32 division x / 2.0 of a whole number of pixels
half(x) == x \div 2

\* LayoutBox::get_style_node: the styled node of a BlockNode or InlineNode
\* box; an AnonymousBlock has none
get_style_node(tree, b) == styled[tree[b].node]

\* Dimensions::margin_box: the content area plus padding, border and margin
margin_box(d) ==
    [x |-> d.content.x - d.padding.left - d.border.left - d.margin.left,
     y |-> d.content.y - d.padding.top - d.border.top - d.margin.top,
     width |-> d.content.width + d.padding.left + d.padding.right
                   + d.border.left + d.border.right + d.margin.left + d.margin.right,
     height |-> d.content.height + d.padding.top + d.padding.bottom
                    + d.border.top + d.border.bottom + d.margin.top + d.margin.bottom]

\* a plausible slip: the auto margins of a box that is too wide are not set
\* to 0 before the cases are told apart
calculate_block_width_unclamped(style, containing_block) ==
    LET auto == Keyword("auto")
        zero == Length(0)
        width0 == IF value(style, "width") # None THEN value(style, "width")[1] ELSE auto
        margin_left0 == lookup(style, "margin-left", "margin", zero)
        margin_right0 == lookup(style, "margin-right", "margin", zero)
        border_left == lookup(style, "border-left-width", "border-width", zero)
        border_right == lookup(style, "border-right-width", "border-width", zero)
        padding_left == lookup(style, "padding-left", "padding", zero)
        padding_right == lookup(style, "padding-right", "padding", zero)
        total == to_px(margin_left0) + to_px(margin_right0) + to_px(border_left)
                     + to_px(border_right) + to_px(padding_left) + to_px(padding_right)
                     + to_px(width0)
        clamp == FALSE
        margin_left1 == IF clamp /\ margin_left0 = auto THEN Length(0) ELSE margin_left0
        margin_right1 == IF clamp /\ margin_right0 = auto THEN Length(0) ELSE margin_right0
        underflow == containing_block.content.width - total
        solved ==
            CASE width0 # auto /\ margin_left1 # auto /\ margin_right1 # auto ->
                     [width |-> width0, margin_left |-> margin_left1,
                      margin_right |-> Px(to_px(margin_right1) + underflow)]
              [] width0 # auto /\ margin_left1 # auto /\ margin_right1 = auto ->
                     [width |-> width0, margin_left |-> margin_left1,
                      margin_right |-> Px(underflow)]
              [] width0 # auto /\ margin_left1 = auto /\ margin_right1 # auto ->
                     [width |-> width0, margin_left |-> Px(underflow),
                      margin_right |-> margin_right1]
              [] width0 = auto ->
                     LET ml == IF margin_left1 = auto THEN Px(0) ELSE margin_left1
                         mr == IF margin_right1 = auto THEN Px(0) ELSE margin_right1
                     IN IF underflow >= 0
                        THEN [width |-> Px(underflow), margin_left |-> ml,
                              margin_right |-> mr]
                        ELSE [width |-> Px(0), margin_left |-> ml,
                              margin_right |-> Px(to_px(mr) + underflow)]
              [] width0 # auto /\ margin_left1 = auto /\ margin_right1 = auto ->
                     [width |-> width0, margin_left |-> Px(half(underflow)),
                      margin_right |-> Px(half(underflow))]
    IN [width |-> solved.width,
        margin_left |-> solved.margin_left, margin_right |-> solved.margin_right,
        border_left |-> border_left, border_right |-> border_right,
        padding_left |-> padding_left, padding_right |-> padding_right,
        underflow |-> underflow]

\* a plausible slip: with `width` auto the width takes the underflow even when
\* it is negative
calculate_block_width_negative(style, containing_block) ==
    LET auto == Keyword("auto")
        zero == Length(0)
        width0 == IF value(style, "width") # None THEN value(style, "width")[1] ELSE auto
        margin_left0 == lookup(style, "margin-left", "margin", zero)
        margin_right0 == lookup(style, "margin-right", "margin", zero)
        border_left == lookup(style, "border-left-width", "border-width", zero)
        border_right == lookup(style, "border-right-width", "border-width", zero)
        padding_left == lookup(style, "padding-left", "padding", zero)
        padding_right == lookup(style, "padding-right", "padding", zero)
        total == to_px(margin_left0) + to_px(margin_right0) + to_px(border_left)
                     + to_px(border_right) + to_px(padding_left) + to_px(padding_right)
                     + to_px(width0)
        \* lines 284-291
        clamp == width0 # auto /\ total > containing_block.content.width
        margin_left1 == IF clamp /\ margin_left0 = auto THEN Length(0) ELSE margin_left0
        margin_right1 == IF clamp /\ margin_right0 = auto THEN Length(0) ELSE margin_right0
        underflow == containing_block.content.width - total
        solved ==
            CASE width0 # auto /\ margin_left1 # auto /\ margin_right1 # auto ->
                     [width |-> width0, margin_left |-> margin_left1,
                      margin_right |-> Px(to_px(margin_right1) + underflow)]
              [] width0 # auto /\ margin_left1 # auto /\ margin_right1 = auto ->
                     [width |-> width0, margin_left |-> margin_left1,
                      margin_right |-> Px(underflow)]
              [] width0 # auto /\ margin_left1 = auto /\ margin_right1 # auto ->
                     [width |-> width0, margin_left |-> Px(underflow),
                      margin_right |-> margin_right1]
              [] width0 = auto ->
                     LET ml == IF margin_left1 = auto THEN Px(0) ELSE margin_left1
                         mr == IF margin_right1 = auto THEN Px(0) ELSE margin_right1
                     IN [width |-> Px(underflow), margin_left |-> ml, margin_right |-> mr]
              [] width0 # auto /\ margin_left1 = auto /\ margin_right1 = auto ->
                     [width |-> width0, margin_left |-> Px(half(underflow)),
                      margin_right |-> Px(half(underflow))]
    IN [width |-> solved.width,
        margin_left |-> solved.margin_left, margin_right |-> solved.margin_right,
        border_left |-> border_left, border_right |-> border_right,
        padding_left |-> padding_left, padding_right |-> padding_right,
        underflow |-> underflow]

\* calculate_block_width: its locals when it returns.  It assigns none of
\* them to self.dimensions.
calculate_block_width(style, containing_block) ==
    LET auto == Keyword("auto")
        zero == Length(0)
        width0 == IF value(style, "width") # None THEN value(style, "width")[1] ELSE auto
        margin_left0 == lookup(style, "margin-left", "margin", zero)
        margin_right0 == lookup(style, "margin-right", "margin", zero)
        border_left == lookup(style, "border-left-width", "border-width", zero)
        border_right == lookup(style, "border-right-width", "border-width", zero)
        padding_left == lookup(style, "padding-left", "padding", zero)
        padding_right == lookup(style, "padding-right", "padding", zero)
        total == to_px(margin_left0) + to_px(margin_right0) + to_px(border_left)
                     + to_px(border_right) + to_px(padding_left) + to_px(padding_right)
                     + to_px(width0)
        \* lines 284-291
        clamp == width0 # auto /\ total > containing_block.content.width
        margin_left1 == IF clamp /\ margin_left0 = auto THEN Length(0) ELSE margin_left0
        margin_right1 == IF clamp /\ margin_right0 = auto THEN Length(0) ELSE margin_right0
        underflow == containing_block.content.width - total
        solved ==
            CASE width0 # auto /\ margin_left1 # auto /\ margin_right1 # auto ->
                     [width |-> width0, margin_left |-> margin_left1,
                      margin_right |-> Px(to_px(margin_right1) + underflow)]
              [] width0 # auto /\ margin_left1 # auto /\ margin_right1 = auto ->
                     [width |-> width0, margin_left |-> margin_left1,
                      margin_right |-> Px(underflow)]
              [] width0 # auto /\ margin_left1 = auto /\ margin_right1 # auto ->
                     [width |-> width0, margin_left |-> Px(underflow),
                      margin_right |-> margin_right1]
              [] width0 = auto ->
                     LET ml == IF margin_left1 = auto THEN Px(0) ELSE margin_left1
                         mr == IF margin_right1 = auto THEN Px(0) ELSE margin_right1
                     IN IF underflow >= 0
                        THEN [width |-> Px(underflow), margin_left |-> ml,
                              margin_right |-> mr]
                        ELSE [width |-> Px(0), margin_left |-> ml,
                              margin_right |-> Px(to_px(mr) + underflow)]
              [] width0 # auto /\ margin_left1 = auto /\ margin_right1 = auto ->
                     [width |-> width0, margin_left |-> Px(half(underflow)),
                      margin_right |-> Px(half(underflow))]
    IN [width |-> solved.width,
        margin_left |-> solved.margin_left, margin_right |-> solved.margin_right,
        border_left |-> border_left, border_right |-> border_right,
        padding_left |-> padding_left, padding_right |-> padding_right,
        underflow |-> underflow]

\* calculate_block_position: the Dimensions of the box when it returns
calculate_block_position(style, d, containing_block) ==
    LET zero == Length(0)
        d1 == [d EXCEPT
                 !.margin.top = to_px(lookup(style, "margin-top", "margin", zero)),
                 !.margin.bottom = to_px(lookup(style, "margin-bottom", "margin", zero)),
                 !.border.top = to_px(lookup(style, "border-top-width", "border-width", zero)),
                 !.border.bottom = to_px(lookup(style, "border-bottom-width", "border-width", zero)),
                 !.padding.top = to_px(lookup(style, "padding-top", "padding", zero)),
                 !.padding.bottom = to_px(lookup(style, "padding-bottom", "padding", zero))]
    IN [d1 EXCEPT
          !.content.x = containing_block.content.x
                            + d1.margin.left + d1.border.left + d1.padding.left,
          !.content.y = containing_block.content.height + containing_block.content.y
                            + d1.margin.top + d1.border.top + d1.padding.top]

\* a plausible slip: the explicit `height` is not looked at
calculate_block_height_children_only(style, d) == d

\* calculate_block_height: an explicit `height` is the content height; the
\* height the children gave stands otherwise
calculate_block_height(style, d) ==
    IF value(style, "height") # None /\ value(style, "height")[1].kind = "Length"
    THEN [d EXCEPT !.content.height = to_px(value(style, "height")[1])]
    ELSE d

\* A call on the stack: the function, the box it is called on, its
\* containing_block argument, the step of layout_block it is at and the
\* child layout_block_children is at.
Frame(fn, b, containing_block, pc, i) ==
    [fn |-> fn, box |-> b, containing_block |-> containing_block, pc |-> pc, i |-> i]

\* A step of the layout pass: layout_block's calculate_block_width ("width"),
\* calculate_block_position ("position") and calculate_block_height
\* ("height") on a box, layout_block_children's call of layout on a child
\* ("layout") and the return of that call ("returned").
Step(b, step) == [box |-> b, step |-> step]

Top(stk) == stk[Len(stk)]

Pop(stk) == SubSeq(stk, 1, Len(stk) - 1)

\* The innermost call returns.  A caller that is layout (line 180) has
\* nothing left to do and returns too; a caller that is layout_block is in
\* the loop of layout_block_children (line 398): it adds the margin box
\* height of the child to its content height and moves to the next child.
RECURSIVE return_from(_, _)
return_from(stk, tree) ==
    LET callee == Top(stk)
        rest == Pop(stk)
    IN IF rest = <<>> THEN [stack |-> rest, tree |-> tree]
       ELSE IF Top(rest).fn = "layout" THEN return_from(rest, tree)
       ELSE LET caller == Top(rest) IN
            [stack |-> Append(Pop(rest), [caller EXCEPT !.i = @ + 1]),
             tree |-> [tree EXCEPT ![caller.box].dimensions.content.height =
                           @ + margin_box(tree[callee.box].dimensions).height]]

----------------------------------------------------------------------------
\* painting.rs: the display list.  The painter's state while it walks the
\* layout tree is [list, asked]: the DisplayList so far and the boxes whose
\* styled node it has asked for.

Rect(x, y, width, height) == [x |-> x, y |-> y, width |-> width, height |-> height]

\* DisplayCommand::SolidColor
SolidColor(color, rect) == [color |-> color, rect |-> rect]

\* Dimensions::border_box: the content area plus padding and border
border_box(d) ==
    Rect(d.content.x - d.padding.left - d.border.left,
         d.content.y - d.padding.top - d.border.top,
         d.content.width + d.padding.left + d.padding.right
             + d.border.left + d.border.right,
         d.content.height + d.padding.top + d.padding.bottom
             + d.border.top + d.border.bottom)

\* a plausible slip: the AnonymousBlock arm asks for the styled node as well
get_color_of_any_box(tree, b, name) ==
    IF tree[b].box_type \in {"BlockNode", "InlineNode"}
    THEN LET v == value(styled[tree[b].node], name)
         IN [color |-> IF v # None /\ v[1].kind = "ColorValue" THEN Some(v[1].s) ELSE None,
             asked |-> {b}]
    ELSE [color |-> None, asked |-> {b}]

\* get_color: the colour, if any, and the box whose styled node was asked for
get_color(tree, b, name) ==
    IF tree[b].box_type \in {"BlockNode", "InlineNode"}
    THEN LET v == value(styled[tree[b].node], name)
         IN [color |-> IF v # None /\ v[1].kind = "ColorValue" THEN Some(v[1].s) ELSE None,
             asked |-> {b}]
    ELSE [color |-> None, asked |-> {}]

render_background(acc, tree, b) ==
    LET c == get_color(tree, b, "background")
    IN [list |-> IF c.color = None THEN acc.list
                 ELSE Append(acc.list,
                             SolidColor(c.color[1], border_box(tree[b].dimensions))),
        asked |-> acc.asked \cup c.asked]

render_borders(acc, tree, b) ==
    LET c == get_color(tree, b, "border-color")
        d == tree[b].dimensions
        bb == border_box(d)
    IN [list |->
            IF c.color = None THEN acc.list
            ELSE acc.list \o
                 <<\* Top border
                   SolidColor(c.color[1], Rect(bb.x, bb.y, bb.width, d.border.top)),
                   \* Right border
                   SolidColor(c.color[1], Rect(bb.x + bb.width - d.border.right, bb.y,
                                               d.border.left, bb.height)),
                   \* Bottom border
                   SolidColor(c.color[1], Rect(bb.x, bb.y + bb.height - d.border.bottom,
                                               bb.width, d.border.bottom)),
                   \* Left border
                   SolidColor(c.color[1], Rect(bb.x, bb.y, d.border.left, bb.height))>>,
        asked |-> acc.asked \cup c.asked]

\* render_layout_box: the background, the borders, then the children
RECURSIVE render_layout_box(_, _, _)
render_layout_box(acc, tree, b) ==
    LET render_children[i \in 0..Len(tree[b].children)] ==
            IF i = 0 THEN render_borders(render_background(acc, tree, b), tree, b)
            ELSE render_layout_box(render_children[i - 1], tree, tree[b].children[i])
    IN render_children[Len(tree[b].children)]

build_display_list(tree, layout_root) ==
    render_layout_box([list |-> <<>>, asked |-> {}], tree, layout_root)

----------------------------------------------------------------------------
\* Inputs of the selector matcher and of the cascade.

Element(tag, attrs) == [tag_name |-> tag, attributes |-> attrs]

SimpleSelector(tag, ident, class) == [tag_name |-> tag, id |-> ident, class |-> class]

ClassAttrs == UNION {[1..n -> Chars] : n \in 0..MaxClassAttrLen}

\* attribute maps with any of the keys "id" and "class"
AttributeMaps(idValues, classValues) ==
    {[k \in D |-> IF k = "id" THEN i ELSE c] :
        D \in SUBSET {"id", "class"}, i \in idValues, c \in classValues}

MatchElements ==
    {Element(t, a) : t \in {"p", "div"}, a \in AttributeMaps({"a", "b"}, ClassAttrs)}

\* class names as the parser can produce them, the empty identifier included
MatchSelectors ==
    {SimpleSelector(t, i, c) :
        t \in {None, Some("p"), Some("div")},
        i \in {None, Some("a"), Some("b")},
        c \in {<<>>, <<<<"a">>>>, <<<<"b">>>>, <<<<"a">>, <<"b">>>>, <<<<>>>>}}

\* <p id="a" class="b">, <p class="b">, <div id="a">
CascadeElements ==
    {Element("p", [k \in {"id", "class"} |-> IF k = "id" THEN "a" ELSE <<"b">>]),
     Element("p", [k \in {"class"} |-> <<"b">>]),
     Element("div", [k \in {"id"} |-> "a"])}

\* p, .b, #a
SelectorPool ==
    {SimpleSelector(Some("p"), None, <<>>),
     SimpleSelector(None, None, <<<<"b">>>>),
     SimpleSelector(None, Some("a"), <<>>)}

\* comma-joined lists of distinct selectors of the pool, in any source order
SelectorLists ==
    {s \in UNION {[1..n -> SelectorPool] : n \in 1..Cardinality(SelectorPool)} :
        \A i, j \in 1..Len(s) : i # j => s[i] # s[j]}

Red == ColorValue("ff0000")
Green == ColorValue("00ff00")

DeclLists ==
    {<<Declaration("color", Red)>>,
     <<Declaration("color", Green)>>,
     <<Declaration("display", Keyword("block")), Declaration("color", Green)>>}

----------------------------------------------------------------------------
\* The selector matcher applied to one element and one selector.

\* no element is being styled
StyleIdle ==
    /\ element = Element("p", EmptyMap)
    /\ matchSel = None
    /\ matchResult = FALSE
    /\ stylesheet = <<>>
    /\ matched = <<>>
    /\ values = EmptyMap
    /\ document = <<>>
    /\ pcStyle = "idle"

\* no style tree has been handed to the box tree builder
BoxIdle ==
    /\ styled = <<>>
    /\ displayNode = 0
    /\ displayResult = "Inline"
    /\ boxes = <<>>
    /\ panicked = FALSE
    /\ pcBuild = "idle"

\* no selector list has been parsed
ParseIdle == source = <<>>

\* the painter has not run
PaintIdle ==
    /\ display_list = <<>>
    /\ asked = {}
    /\ pcPaint = "idle"

\* no layout pass is running
LayoutIdle ==
    /\ viewport = DimensionsDefault
    /\ stack = <<>>
    /\ locals = EmptyMap
    /\ trace = <<>>
    /\ pcLayout = "idle"

InitMatch ==
    /\ element \in MatchElements
    /\ matchSel = None
    /\ matchResult = FALSE
    /\ stylesheet = <<>>
    /\ matched = <<>>
    /\ values = EmptyMap
    /\ document = <<>>
    /\ pcStyle = "match"
    /\ BoxIdle
    /\ LayoutIdle
    /\ ParseIdle
    /\ PaintIdle

Matches(sel) ==
    /\ pcStyle = "match"
    /\ matchSel = None
    /\ matchSel' = Some(sel)
    /\ matchResult' = matches(element, sel)
    /\ UNCHANGED <<parseVars, paintVars, document, element, stylesheet, matched, values, pcStyle, boxVars, layoutVars>>

NextMatch == \E sel \in MatchSelectors : Matches(sel)

SpecMatch == InitMatch /\ [][NextMatch]_vars

----------------------------------------------------------------------------
\* The CSS parser followed by the cascade for one element.

InitCascade ==
    /\ element \in CascadeElements
    /\ matchSel = None
    /\ matchResult = FALSE
    /\ stylesheet = <<>>
    /\ matched = <<>>
    /\ values = EmptyMap
    /\ document = <<>>
    /\ pcStyle = "parse"
    /\ BoxIdle
    /\ LayoutIdle
    /\ ParseIdle
    /\ PaintIdle

\* Parser::parse_rule, pushed by parse_rules
ParseRule(src, decls) ==
    /\ pcStyle = "parse"
    /\ Len(stylesheet) < MaxRules
    /\ stylesheet' = Append(stylesheet,
                            [selectors |-> parse_selectors(src), declarations |-> decls])
    /\ UNCHANGED <<parseVars, paintVars, document, element, matchSel, matchResult, matched, values, pcStyle, boxVars, layoutVars>>

\* parse_rules reaches the end of the input
ParseEof ==
    /\ pcStyle = "parse"
    /\ pcStyle' = "style"
    /\ UNCHANGED <<parseVars, paintVars, document, element, matchSel, matchResult, stylesheet, matched, values, boxVars, layoutVars>>

\* specified_values(element, stylesheet)
SpecifiedValues ==
    /\ pcStyle = "style"
    /\ matched' = matching_rules(element, stylesheet)
    /\ values' = specified_values(element, stylesheet)
    /\ pcStyle' = "styled"
    /\ UNCHANGED <<parseVars, paintVars, document, element, matchSel, matchResult, stylesheet, boxVars, layoutVars>>

NextCascade ==
    \/ \E src \in SelectorLists, decls \in DeclLists : ParseRule(src, decls)
    \/ ParseEof
    \/ SpecifiedValues

SpecCascade == InitCascade /\ [][NextCascade]_vars

----------------------------------------------------------------------------
\* Parser::parse_selectors on a selector list: the selectors come back sorted
\* by specificity.

InitSelectors ==
    /\ element = Element("p", EmptyMap)
    /\ matchSel = None
    /\ matchResult = FALSE
    /\ stylesheet = <<>>
    /\ matched = <<>>
    /\ values = EmptyMap
    /\ document = <<>>
    /\ pcStyle = "selectors"
    /\ BoxIdle
    /\ LayoutIdle
    /\ ParseIdle
    /\ PaintIdle

\* parse_rule on a rule without declarations
ParseSelectors(src) ==
    /\ pcStyle = "selectors"
    /\ stylesheet' = <<[selectors |-> parse_selectors(src), declarations |-> <<>>]>>
    /\ pcStyle' = "sorted"
    /\ source' = src
    /\ UNCHANGED <<paintVars, document, element, matchSel, matchResult, matched, values, boxVars, layoutVars>>

\* selectors with and without a tag name, an id, one class and two classes
SortSelectors ==
    {SimpleSelector(t, i, c) :
        t \in {None, Some("p"), Some("div")},
        i \in {None, Some("a")},
        c \in {<<>>, <<<<"a">>>>, <<<<"a">>, <<"b">>>>}}

\* selector lists of at most MaxSelectors selectors, in any source order
SelectorSources == UNION {[1..n -> SortSelectors] : n \in 1..MaxSelectors}

NextSelectors ==
    /\ pcStyle = "selectors"
    /\ \E src \in SelectorSources : ParseSelectors(src)

SpecSelectors == InitSelectors /\ [][NextSelectors]_vars

----------------------------------------------------------------------------
\* Style trees: every shape of at most MaxNodes nodes, numbered in document
\* order, with a property map per node.

RECURSIVE AncestorsOrSelf(_, _)
AncestorsOrSelf(parent, i) ==
    IF i = 1 THEN {1} ELSE {i} \cup AncestorsOrSelf(parent, parent[i])

\* parent[i] for i in 2..n; document order makes the parent of i an ancestor
\* of i - 1, or i - 1 itself
Parents(n) ==
    {parent \in [2..n -> 1..(n - 1)] :
        \A i \in 2..n : parent[i] \in AncestorsOrSelf(parent, i - 1)}

RECURSIVE Ascending(_)
Ascending(S) ==
    IF S = {} THEN <<>>
    ELSE LET least == CHOOSE x \in S : \A y \in S : x <= y
         IN <<least>> \o Ascending(S \ {least})

StyleTree(n, parent, maps) ==
    [i \in 1..n |->
        [node |-> i, specified_values |-> maps[i],
         children |-> Ascending({c \in 2..n : parent[c] = i})]]

StyleTrees(max, Maps) ==
    UNION {UNION {{StyleTree(n, parent, maps) : maps \in [1..n -> Maps]} :
                      parent \in Parents(n)} : n \in 1..max}

\* `display` absent, block, none, another keyword, a length, a colour
DisplayValues ==
    {None} \cup
    {Some(v) : v \in {Keyword("block"), Keyword("none"), Keyword("inline"),
                      Length(10), Red}}

\* property maps with any of display, width, margin and background
PropertyMap(d, w, m, b) ==
    LET given == [display |-> d, width |-> w, margin |-> m, background |-> b]
    IN [k \in {x \in DOMAIN given : given[x] # None} |-> given[k][1]]

DisplayMaps ==
    {PropertyMap(d, w, m, b) :
        d \in DisplayValues,
        w \in {None, Some(Keyword("auto")), Some(Length(100))},
        m \in {None, Some(Keyword("auto")), Some(Length(10))},
        b \in {None, Some(Green)}}

\* `display` absent, block, none, a length
BoxMaps ==
    {PropertyMap(d, None, None, None) :
        d \in {None, Some(Keyword("block")), Some(Keyword("none")), Some(Length(10))}}

----------------------------------------------------------------------------
\* StyledNode::display applied to one styled node.

InitDisplay ==
    /\ StyleIdle
    /\ styled \in StyleTrees(1, DisplayMaps)
    /\ displayNode = 0
    /\ displayResult = "Inline"
    /\ boxes = <<>>
    /\ panicked = FALSE
    /\ pcBuild = "styled"
    /\ LayoutIdle
    /\ ParseIdle
    /\ PaintIdle

\* node.display()
Display(n) ==
    /\ pcBuild = "styled"
    /\ displayNode = 0
    /\ displayNode' = n
    /\ displayResult' = display(styled[n])
    /\ UNCHANGED <<parseVars, paintVars, styleVars, layoutVars, styled, boxes, panicked, pcBuild>>

NextDisplay == \E n \in 1..Len(styled) : Display(n)

SpecDisplay == InitDisplay /\ [][NextDisplay]_vars

----------------------------------------------------------------------------
\* The box tree builder applied to a style tree.

InitBox ==
    /\ StyleIdle
    /\ styled \in StyleTrees(MaxNodes, BoxMaps)
    /\ displayNode = 0
    /\ displayResult = "Inline"
    /\ boxes = <<>>
    /\ panicked = FALSE
    /\ pcBuild = "styled"
    /\ LayoutIdle
    /\ ParseIdle
    /\ PaintIdle

\* build_layout_tree(root) of a style tree whose root is not display:none
BuildLayoutTree ==
    /\ pcBuild = "styled"
    /\ ~build_layout_tree(styled, <<>>, 1).panic
    /\ boxes' = build_layout_tree(styled, <<>>, 1).tree
    /\ pcBuild' = "built"
    /\ UNCHANGED <<parseVars, paintVars, styleVars, layoutVars, styled, displayNode, displayResult, panicked>>

\* build_layout_tree(root) panics: no tree is returned
BuildPanics ==
    /\ pcBuild = "styled"
    /\ build_layout_tree(styled, <<>>, 1).panic
    /\ panicked' = TRUE
    /\ boxes' = <<>>
    /\ pcBuild' = "built"
    /\ UNCHANGED <<parseVars, paintVars, styleVars, layoutVars, styled, displayNode, displayResult>>

NextBox ==
    \/ BuildLayoutTree
    \/ BuildPanics

SpecBox == InitBox /\ [][NextBox]_vars

----------------------------------------------------------------------------
\* The layout pass over the layout tree of a style tree.

\* block and inline nodes with the widths, margins, borders, paddings and
\* heights of a small style sheet
LayoutMaps ==
    {EmptyMap,
     [k \in {"display"} |-> Keyword("block")],
     [display |-> Keyword("block"), width |-> Length(100), margin |-> Keyword("auto")],
     [display |-> Keyword("block"), width |-> Length(300), padding |-> Length(10)],
     [k \in {"display", "height", "margin-left", "border-width"} |->
          CASE k = "display" -> Keyword("block")
            [] k = "height" -> Length(50)
            [] k = "margin-left" -> Length(5)
            [] k = "border-width" -> Length(2)]}

\* the initial containing block: 200px wide at the origin, 120px wide at (10, 20)
Viewports ==
    {[DimensionsDefault EXCEPT !.content.width = 400],
     [DimensionsDefault EXCEPT !.content.x = 20, !.content.y = 40, !.content.width = 240]}

\* The style tree is built into a layout tree; the pass starts with a call
\* of layout on the root box or, the root being a block, of layout_block.
InitLayout ==
    /\ StyleIdle
    /\ styled \in {t \in StyleTrees(MaxLayoutNodes, LayoutMaps) : display(t[1]) # "None"}
    /\ displayNode = 0
    /\ displayResult = "Inline"
    /\ boxes = build_layout_tree(styled, <<>>, 1).tree
    /\ panicked = FALSE
    /\ pcBuild = "built"
    /\ viewport \in Viewports
    /\ \E fn \in {"layout", "layout_block"} :
           /\ fn = "layout_block" => boxes[1].box_type = "BlockNode"
           /\ stack = <<Frame(fn, 1, viewport, IF fn = "layout" THEN "match" ELSE "width", 1)>>
    /\ locals = EmptyMap
    /\ trace = <<>>
    /\ pcLayout = "running"
    /\ ParseIdle
    /\ PaintIdle

Running == pcLayout = "running" /\ stack # <<>>

\* layout, line 180: on a BlockNode box, layout calls itself
LayoutBlockNode ==
    /\ Running
    /\ Top(stack).fn = "layout"
    /\ boxes[Top(stack).box].box_type = "BlockNode"
    /\ Len(stack) < MaxStack
    /\ stack' = Append(stack, Frame("layout", Top(stack).box,
                                    Top(stack).containing_block, "match", 1))
    /\ UNCHANGED <<parseVars, paintVars, styleVars, boxVars, viewport, trace, locals, pcLayout>>

\* the call of line 180 finds the stack full: the process aborts
StackOverflow ==
    /\ Running
    /\ Top(stack).fn = "layout"
    /\ boxes[Top(stack).box].box_type = "BlockNode"
    /\ Len(stack) = MaxStack
    /\ pcLayout' = "overflow"
    /\ UNCHANGED <<parseVars, paintVars, styleVars, boxVars, viewport, trace, stack, locals>>

\* a plausible slip: an InlineNode or AnonymousBlock box is moved to the
\* corner of its containing block
LayoutPlaceholderPlaced ==
    /\ Running
    /\ Top(stack).fn = "layout"
    /\ boxes[Top(stack).box].box_type \in {"InlineNode", "AnonymousBlock"}
    /\ LET placed == [boxes EXCEPT
                         ![Top(stack).box].dimensions.content.x =
                             Top(stack).containing_block.content.x,
                         ![Top(stack).box].dimensions.content.y =
                             Top(stack).containing_block.content.y]
       IN /\ stack' = return_from(stack, placed).stack
          /\ boxes' = return_from(stack, placed).tree
    /\ pcLayout' = IF stack' = <<>> THEN "done" ELSE "running"
    /\ trace' = Append(trace, Step(Top(stack).box, "returned"))
    /\ UNCHANGED <<parseVars, paintVars, styleVars, styled, displayNode, displayResult, panicked, pcBuild,
                   viewport, locals>>

\* layout, lines 181-182: nothing is done for an InlineNode or an
\* AnonymousBlock box, and layout returns
LayoutPlaceholder ==
    /\ Running
    /\ Top(stack).fn = "layout"
    /\ boxes[Top(stack).box].box_type \in {"InlineNode", "AnonymousBlock"}
    /\ stack' = return_from(stack, boxes).stack
    /\ boxes' = return_from(stack, boxes).tree
    /\ pcLayout' = IF stack' = <<>> THEN "done" ELSE "running"
    /\ trace' = Append(trace, Step(Top(stack).box, "returned"))
    /\ UNCHANGED <<parseVars, paintVars, styleVars, styled, displayNode, displayResult, panicked, pcBuild,
                   viewport, locals>>

\* layout_block, line 200
CalculateBlockWidth ==
    /\ Running
    /\ Top(stack).fn = "layout_block"
    /\ Top(stack).pc = "width"
    /\ locals' = calculate_block_width(get_style_node(boxes, Top(stack).box),
                                       Top(stack).containing_block)
    /\ stack' = Append(Pop(stack), [Top(stack) EXCEPT !.pc = "position"])
    /\ trace' = Append(trace, Step(Top(stack).box, "width"))
    /\ UNCHANGED <<parseVars, paintVars, styleVars, boxVars, viewport, pcLayout>>

\* layout_block, line 203
CalculateBlockPosition ==
    /\ Running
    /\ Top(stack).fn = "layout_block"
    /\ Top(stack).pc = "position"
    /\ boxes' = [boxes EXCEPT ![Top(stack).box].dimensions =
                     calculate_block_position(get_style_node(boxes, Top(stack).box), @,
                                              Top(stack).containing_block)]
    /\ stack' = Append(Pop(stack), [Top(stack) EXCEPT !.pc = "children", !.i = 1])
    /\ trace' = Append(trace, Step(Top(stack).box, "position"))
    /\ UNCHANGED <<parseVars, paintVars, styleVars, styled, displayNode, displayResult, panicked, pcBuild,
                   viewport, locals, pcLayout>>

\* layout_block_children, line 396: child.layout(self.dimensions)
LayoutChild ==
    /\ Running
    /\ Top(stack).fn = "layout_block"
    /\ Top(stack).pc = "children"
    /\ Top(stack).i <= Len(boxes[Top(stack).box].children)
    /\ Len(stack) < MaxStack
    /\ stack' = Append(stack, Frame("layout", boxes[Top(stack).box].children[Top(stack).i],
                                    boxes[Top(stack).box].dimensions, "match", 1))
    /\ trace' = Append(trace, Step(boxes[Top(stack).box].children[Top(stack).i], "layout"))
    /\ UNCHANGED <<parseVars, paintVars, styleVars, boxVars, viewport, locals, pcLayout>>

\* a plausible slip: layout_block goes on to the height with children left
LayoutChildrenSkipped ==
    /\ Running
    /\ Top(stack).fn = "layout_block"
    /\ Top(stack).pc = "children"
    /\ stack' = Append(Pop(stack), [Top(stack) EXCEPT !.pc = "height"])
    /\ UNCHANGED <<parseVars, paintVars, styleVars, boxVars, viewport, trace, locals, pcLayout>>

\* layout_block_children has gone through the children
LayoutChildrenDone ==
    /\ Running
    /\ Top(stack).fn = "layout_block"
    /\ Top(stack).pc = "children"
    /\ Top(stack).i > Len(boxes[Top(stack).box].children)
    /\ stack' = Append(Pop(stack), [Top(stack) EXCEPT !.pc = "height"])
    /\ UNCHANGED <<parseVars, paintVars, styleVars, boxVars, viewport, trace, locals, pcLayout>>

\* layout_block, line 210, and its return
CalculateBlockHeight ==
    /\ Running
    /\ Top(stack).fn = "layout_block"
    /\ Top(stack).pc = "height"
    /\ LET solved == [boxes EXCEPT ![Top(stack).box].dimensions =
                          calculate_block_height(get_style_node(boxes, Top(stack).box), @)]
       IN /\ stack' = return_from(stack, solved).stack
          /\ boxes' = return_from(stack, solved).tree
    /\ pcLayout' = IF stack' = <<>> THEN "done" ELSE "running"
    /\ trace' = Append(trace, Step(Top(stack).box, "height"))
    /\ UNCHANGED <<parseVars, paintVars, styleVars, styled, displayNode, displayResult, panicked, pcBuild,
                   viewport, locals>>

NextLayout ==
    \/ LayoutBlockNode
    \/ StackOverflow
    \/ LayoutPlaceholder
    \/ CalculateBlockWidth
    \/ CalculateBlockPosition
    \/ LayoutChild
    \/ LayoutChildrenDone
    \/ CalculateBlockHeight

SpecLayout == InitLayout /\ [][NextLayout]_vars

----------------------------------------------------------------------------
\* layout_block on a single block box, over the cases of the width solver.

\* the property map of the properties that are given
Properties(given) == [k \in {x \in DOMAIN given : given[x] # None} |-> given[k][1]]

\* display:block with `width` absent, auto, 100px or 300px, each horizontal
\* margin absent, auto or 5px, margin-right 150px too, `margin` absent or auto, `padding` absent or
\* 10px and `margin-top` absent, auto or 3px
WidthMaps ==
    {Properties([x \in {"display", "width", "margin", "padding", "margin-left",
                        "margin-right", "margin-top"} |->
                    CASE x = "display" -> Some(Keyword("block"))
                      [] x = "width" -> w
                      [] x = "margin" -> m
                      [] x = "padding" -> p
                      [] x = "margin-left" -> ml
                      [] x = "margin-right" -> mr
                      [] x = "margin-top" -> mt]) :
        w \in {None, Some(Keyword("auto")), Some(Length(100)), Some(Length(300))},
        ml \in {None, Some(Keyword("auto")), Some(Length(5))},
        mr \in {None, Some(Keyword("auto")), Some(Length(5)), Some(Length(150))},
        m \in {None, Some(Keyword("auto"))},
        p \in {None, Some(Length(10))},
        mt \in {None, Some(Keyword("auto")), Some(Length(3))}}

InitWidth ==
    /\ StyleIdle
    /\ styled \in StyleTrees(1, WidthMaps)
    /\ displayNode = 0
    /\ displayResult = "Inline"
    /\ boxes = build_layout_tree(styled, <<>>, 1).tree
    /\ panicked = FALSE
    /\ pcBuild = "built"
    /\ viewport \in Viewports
    /\ stack = <<Frame("layout_block", 1, viewport, "width", 1)>>
    /\ locals = EmptyMap
    /\ trace = <<>>
    /\ pcLayout = "running"
    /\ ParseIdle
    /\ PaintIdle

NextWidth ==
    \/ CalculateBlockWidth
    \/ CalculateBlockPosition
    \/ LayoutChildrenDone
    \/ CalculateBlockHeight

SpecWidth == InitWidth /\ [][NextWidth]_vars

----------------------------------------------------------------------------
\* The pipeline: style_tree on a document and a stylesheet, build_layout_tree
\* on the style tree, layout on the root box.

\* <div>, <p class="b"> and a text
NodeTypes ==
    {ElementNode(Element("div", EmptyMap)),
     ElementNode(Element("p", [k \in {"class"} |-> <<"b">>])),
     Text("hi")}

\* documents of at most max nodes, numbered in document order; a Text node
\* has no children
Documents(max) ==
    UNION {UNION {{[i \in 1..n |->
                      Node(types[i], Ascending({c \in 2..n : parent[c] = i}))] :
                   types \in {t \in [1..n -> NodeTypes] :
                                 \A c \in 2..n : t[parent[c]].kind = "Element"}} :
                      parent \in Parents(n)} : n \in 1..max}

Rule(selectors, declarations) ==
    [selectors |-> parse_selectors(selectors), declarations |-> declarations]

\* no rule; div { width: 100px; margin: auto; };
\* div { display: block; width: 100px; margin: auto; };
\* div { display: none; } p { display: block; }
Stylesheets ==
    {<<>>,
     <<Rule(<<SimpleSelector(Some("div"), None, <<>>)>>,
            <<Declaration("width", Length(100)), Declaration("margin", Keyword("auto"))>>)>>,
     <<Rule(<<SimpleSelector(Some("div"), None, <<>>)>>,
            <<Declaration("display", Keyword("block")), Declaration("width", Length(100)),
              Declaration("margin", Keyword("auto"))>>)>>,
     <<Rule(<<SimpleSelector(Some("div"), None, <<>>)>>,
            <<Declaration("display", Keyword("none"))>>),
       Rule(<<SimpleSelector(Some("p"), None, <<>>)>>,
            <<Declaration("display", Keyword("block"))>>)>>}

InitPipeline ==
    /\ element = Element("p", EmptyMap)
    /\ matchSel = None
    /\ matchResult = FALSE
    /\ stylesheet \in Stylesheets
    /\ matched = <<>>
    /\ values = EmptyMap
    /\ document \in Documents(MaxDocNodes)
    /\ pcStyle = "document"
    /\ BoxIdle
    /\ viewport \in Viewports
    /\ stack = <<>>
    /\ locals = EmptyMap
    /\ trace = <<>>
    /\ pcLayout = "idle"
    /\ ParseIdle
    /\ PaintIdle

\* style_tree(&root, &stylesheet)
StyleDocument ==
    /\ pcStyle = "document"
    /\ styled' = style_tree(document, 1, stylesheet, <<>>).tree
    /\ pcStyle' = "styled"
    /\ pcBuild' = "styled"
    /\ UNCHANGED <<parseVars, paintVars, document, element, matchSel, matchResult, stylesheet, matched, values,
                   displayNode, displayResult, boxes, panicked, layoutVars>>

\* root_box.layout(viewport)
Layout ==
    /\ pcBuild = "built"
    /\ ~panicked
    /\ pcLayout = "idle"
    /\ stack' = <<Frame("layout", 1, viewport, "match", 1)>>
    /\ pcLayout' = "running"
    /\ UNCHANGED <<parseVars, paintVars, styleVars, boxVars, viewport, trace, locals>>

NextPipeline ==
    \/ StyleDocument
    \/ BuildLayoutTree
    \/ BuildPanics
    \/ Layout
    \/ LayoutBlockNode
    \/ StackOverflow
    \/ LayoutPlaceholder

SpecPipeline == InitPipeline /\ [][NextPipeline]_vars

----------------------------------------------------------------------------
\* The painter after the layout pass.

\* an inline node, a block, a block with a height, colours and a border
RenderMaps ==
    {EmptyMap,
     [k \in {"display"} |-> Keyword("block")],
     [k \in {"display", "height", "background", "border-color", "border-width"} |->
          CASE k = "display" -> Keyword("block")
            [] k = "height" -> Length(50)
            [] k = "background" -> Green
            [] k = "border-color" -> Red
            [] k = "border-width" -> Length(2)]}

InitRender ==
    /\ StyleIdle
    /\ styled \in {t \in StyleTrees(MaxLayoutNodes, RenderMaps) : display(t[1]) # "None"}
    /\ displayNode = 0
    /\ displayResult = "Inline"
    /\ boxes = build_layout_tree(styled, <<>>, 1).tree
    /\ panicked = FALSE
    /\ pcBuild = "built"
    /\ viewport \in Viewports
    /\ \E fn \in {"layout", "layout_block"} :
           /\ fn = "layout_block" => boxes[1].box_type = "BlockNode"
           /\ stack = <<Frame(fn, 1, viewport, IF fn = "layout" THEN "match" ELSE "width", 1)>>
    /\ locals = EmptyMap
    /\ trace = <<>>
    /\ pcLayout = "running"
    /\ ParseIdle
    /\ PaintIdle

\* build_display_list(&layout_root), once the layout pass has returned
BuildDisplayList ==
    /\ pcLayout = "done"
    /\ pcPaint = "idle"
    /\ display_list' = build_display_list(boxes, 1).list
    /\ asked' = build_display_list(boxes, 1).asked
    /\ pcPaint' = "painted"
    /\ UNCHANGED <<parseVars, styleVars, boxVars, layoutVars>>

NextRender ==
    \/ NextLayout
    \/ BuildDisplayList

SpecRender == InitRender /\ [][NextRender]_vars

----------------------------------------------------------------------------
\* The painter applied to one layout box, over the border widths.

\* inline and block nodes with and without `background` and `border-color`
PaintMaps ==
    {Properties([x \in {"display", "background", "border-color"} |->
                    CASE x = "display" -> d
                      [] x = "background" -> bg
                      [] x = "border-color" -> bc]) :
        d \in {None, Some(Keyword("block"))},
        bg \in {None, Some(Green)},
        bc \in {None, Some(Red)}}

\* a content area of 100px by 50px at (10, 20), no padding or 2px of it, and
\* each border 0, 1px or 3px wide
PaintDimensions ==
    {[content |-> Rect(to_px(Length(10)), to_px(Length(20)),
                       to_px(Length(100)), to_px(Length(50))),
      padding |-> [left |-> p, right |-> p, top |-> p, bottom |-> p],
      border |-> [left |-> l, right |-> r, top |-> t, bottom |-> b],
      margin |-> EdgeSizesZero] :
        p \in {0, to_px(Length(2))},
        l \in {0, to_px(Length(1)), to_px(Length(3))},
        r \in {0, to_px(Length(1)), to_px(Length(3))},
        t \in {0, to_px(Length(1)), to_px(Length(3))},
        b \in {0, to_px(Length(1)), to_px(Length(3))}}

InitPaint ==
    /\ StyleIdle
    /\ styled \in StyleTrees(1, PaintMaps)
    /\ displayNode = 0
    /\ displayResult = "Inline"
    /\ \E d \in PaintDimensions :
           boxes = [b \in {1} |->
                       [build_layout_tree(styled, <<>>, 1).tree[b] EXCEPT !.dimensions = d]]
    /\ panicked = FALSE
    /\ pcBuild = "built"
    /\ viewport = DimensionsDefault
    /\ stack = <<>>
    /\ locals = EmptyMap
    /\ trace = <<>>
    /\ pcLayout = "done"
    /\ ParseIdle
    /\ PaintIdle

NextPaint == BuildDisplayList

SpecPaint == InitPaint /\ [][NextPaint]_vars

----------------------------------------------------------------------------
\* Properties of the selector matcher and the cascade.

\* the selectors of rule r that match the element
MatchingSelectors(r) ==
    {sel \in {stylesheet[r].selectors[i] : i \in 1..Len(stylesheet[r].selectors)} :
        matches(element, sel)}

\* the rules with at least one matching selector
MatchingRuleSet == {r \in 1..Len(stylesheet) : MatchingSelectors(r) # {}}

\* the highest specificity among the matching selectors of rule r
GoverningSpecificity(r) ==
    LET S == {specificity(sel) : sel \in MatchingSelectors(r)}
    IN CHOOSE m \in S : \A x \in S : spec_le(x, m)

\* C1: every rule that matches the element is reported once, in stylesheet
\* order, and the specificity reported with it is the highest specificity
\* among the selectors of the rule that match the element.
C1_GoverningSpecificity ==
    pcStyle = "styled" =>
        /\ {matched[k].rule : k \in 1..Len(matched)} = MatchingRuleSet
        /\ \A k \in 1..Len(matched) :
               matched[k].specificity = GoverningSpecificity(matched[k].rule)

DeclaredNames(r) ==
    {stylesheet[r].declarations[i].name : i \in 1..Len(stylesheet[r].declarations)}

\* the value rule r gives to name: its last declaration of that name
DeclaredValue(r, name) ==
    LET ds == stylesheet[r].declarations
        at == {i \in 1..Len(ds) : ds[i].name = name}
    IN ds[CHOOSE i \in at : \A j \in at : j <= i].value

\* rule r yields to rule q: lower specificity, or equal and earlier
Yields(r, q) ==
    \/ spec_lt(GoverningSpecificity(r), GoverningSpecificity(q))
    \/ GoverningSpecificity(r) = GoverningSpecificity(q) /\ r <= q

\* C2: the specified value of every property is the one declared by the
\* matching rule of highest specificity that declares it, the later rule
\* winning among rules of equal specificity; no other property has a value.
C2_HighestSpecificityWins ==
    pcStyle = "styled" =>
        LET declaring(name) == {r \in MatchingRuleSet : name \in DeclaredNames(r)}
            names == UNION {DeclaredNames(r) : r \in MatchingRuleSet}
        IN /\ DOMAIN values = names
           /\ \A name \in names :
                  LET w == CHOOSE q \in declaring(name) :
                               \A r \in declaring(name) : Yields(r, q)
                  IN values[name] = DeclaredValue(w, name)

\* the selector handed to matches()
Sel == matchSel[1]

TagAndIdMatch ==
    /\ Sel.tag_name = None \/ Sel.tag_name = Some(element.tag_name)
    /\ Sel.id = None
       \/ ("id" \in DOMAIN element.attributes /\ Sel.id = Some(element.attributes["id"]))

\* the whitespace-separated tokens of s: its maximal runs of non-whitespace
WhitespaceTokens(s) ==
    {SubSeq(s, i, j) : i \in 1..Len(s), j \in 1..Len(s)} \cap
    {t \in UNION {[1..n -> Chars \ Whitespace] : n \in 1..Len(s)} :
        \E i \in 1..Len(s) :
            /\ i + Len(t) - 1 <= Len(s)
            /\ t = SubSeq(s, i, i + Len(t) - 1)
            /\ i = 1 \/ s[i - 1] \in Whitespace
            /\ i + Len(t) - 1 = Len(s) \/ s[i + Len(t)] \in Whitespace}

\* the pieces of s between its space characters, empty pieces included
SpacePieces(s) ==
    {t \in UNION {[1..n -> Chars \ {" "}] : n \in 0..Len(s)} :
        \E i \in 1..(Len(s) + 1) :
            /\ i + Len(t) - 1 <= Len(s)
            /\ t = SubSeq(s, i, i + Len(t) - 1)
            /\ i = 1 \/ s[i - 1] = " "
            /\ i + Len(t) - 1 = Len(s) \/ s[i + Len(t)] = " "}

ClassSetBy(Tokens(_)) ==
    IF "class" \in DOMAIN element.attributes
    THEN Tokens(element.attributes["class"])
    ELSE {}

\* C3 as stated: matches() holds exactly when the tag and the id constraints
\* of the selector are absent or met and every class of the selector is one
\* of the whitespace-separated tokens of the "class" attribute.
C3_WhitespaceTokens ==
    matchSel # None =>
        (matchResult <=>
            /\ TagAndIdMatch
            /\ \A i \in 1..Len(Sel.class) : Sel.class[i] \in ClassSetBy(WhitespaceTokens))

\* C3 amended: as above, the class set being the pieces of the "class"
\* attribute between its space characters (U+0020): no other whitespace
\* separates class names, and two adjacent spaces, a leading or a trailing
\* space, or an empty attribute give the empty name.
C3_SpacePieces ==
    matchSel # None =>
        (matchResult <=>
            /\ TagAndIdMatch
            /\ \A i \in 1..Len(Sel.class) : Sel.class[i] \in ClassSetBy(SpacePieces))

\* matches() has rejected a selector whose only unmet constraint is a class
\* that a tab, not a space, separates from its neighbour
C3_Witness ==
    /\ matchSel # None
    /\ ~matchResult
    /\ TagAndIdMatch
    /\ Sel.class # <<>>
    /\ \A i \in 1..Len(Sel.class) : Sel.class[i] \in ClassSetBy(WhitespaceTokens)

----------------------------------------------------------------------------
\* Properties of the box tree builder.

\* the `display` of styled node n is the keyword kw
DisplayIs(n, kw) ==
    /\ "display" \in DOMAIN styled[n].specified_values
    /\ styled[n].specified_values["display"] = Keyword(kw)

\* styled nodes that are display:block, display:none, anything else
IsBlock(n) == DisplayIs(n, "block")
IsNone(n) == DisplayIs(n, "none")
IsInline(n) == ~IsBlock(n) /\ ~IsNone(n)

ParentOf(n) == CHOOSE q \in 1..Len(styled) :
                   \E i \in 1..Len(styled[q].children) : styled[q].children[i] = n

RECURSIVE NodeAncestorsOrSelf(_)
NodeAncestorsOrSelf(n) ==
    IF n = 1 THEN {1} ELSE {n} \cup NodeAncestorsOrSelf(ParentOf(n))

\* neither the node nor an ancestor of it is display:none
Visible(n) == \A a \in NodeAncestorsOrSelf(n) : ~IsNone(a)

\* the boxes of the layout tree: those the root box owns
RECURSIVE Owned(_)
Owned(b) ==
    {b} \cup UNION {Owned(boxes[b].children[i]) : i \in 1..Len(boxes[b].children)}

TreeBoxes == IF boxes = <<>> THEN {} ELSE Owned(1)

ChildBoxes(b) == {boxes[b].children[i] : i \in 1..Len(boxes[b].children)}

Built == pcBuild = "built" /\ ~panicked

\* C4: no BlockNode box has an InlineNode box as a direct child: the box of
\* an inline child of a block parent is a child of an AnonymousBlock that is
\* a direct child of the parent's box.
C4_NoBareInlineInBlock ==
    Built =>
        /\ \A b \in TreeBoxes :
               boxes[b].box_type = "BlockNode" =>
                   \A c \in ChildBoxes(b) : boxes[c].box_type # "InlineNode"
        /\ \A n \in 2..Len(styled) :
               Visible(n) /\ IsInline(n) /\ IsBlock(ParentOf(n)) =>
                   \E a, pb, nb \in TreeBoxes :
                       /\ boxes[nb].node = n
                       /\ boxes[pb].node = ParentOf(n)
                       /\ boxes[a].box_type = "AnonymousBlock"
                       /\ nb \in ChildBoxes(a)
                       /\ a \in ChildBoxes(pb)

\* the children a block box is to have for the styled children `kids`, from
\* position i on: a block child as <<"BlockNode", <<child>>>>, a run of
\* adjacent inline children as one <<"AnonymousBlock", run>>; display:none
\* children leave no trace.  `run` is the run of inline children collected.
RECURSIVE Grouped(_, _, _)
Grouped(kids, i, run) ==
    LET flush == IF run = <<>> THEN <<>> ELSE <<<<"AnonymousBlock", run>>>> IN
    IF i > Len(kids) THEN flush
    ELSE IF IsNone(kids[i]) THEN Grouped(kids, i + 1, run)
    ELSE IF IsBlock(kids[i])
    THEN flush \o <<<<"BlockNode", <<kids[i]>>>>>> \o Grouped(kids, i + 1, <<>>)
    ELSE Grouped(kids, i + 1, Append(run, kids[i]))

\* the children a box has: a BlockNode child as <<"BlockNode", <<node>>>>,
\* any other child with the styled nodes of its own children
Shape(b) ==
    [i \in 1..Len(boxes[b].children) |->
        LET c == boxes[b].children[i] IN
        IF boxes[c].box_type = "BlockNode" THEN <<"BlockNode", <<boxes[c].node>>>>
        ELSE <<boxes[c].box_type,
               [j \in 1..Len(boxes[c].children) |-> boxes[boxes[c].children[j]].node]>>]

\* C5: under a block parent an inline child goes to the parent's last child
\* only if that is an AnonymousBlock, and to a new AnonymousBlock otherwise:
\* the children of every BlockNode box are, in document order, the boxes of
\* its block children and one AnonymousBlock per run of adjacent inline
\* children, holding exactly that run in document order.
C5_OneAnonymousBlockPerRun ==
    Built =>
        \A b \in TreeBoxes :
            boxes[b].box_type = "BlockNode" =>
                Shape(b) = Grouped(styled[boxes[b].node].children, 1, <<>>)

\* C6: when the root is not display:none the tree is built, and it holds no
\* box for a node that is display:none or below such a node and exactly one
\* BlockNode or InlineNode box for every other styled node.
C6_BoxesAreTheVisibleNodes ==
    (pcBuild = "built" /\ ~IsNone(1)) =>
        /\ ~panicked
        /\ \A n \in 1..Len(styled) :
               Cardinality({b \in TreeBoxes :
                                /\ boxes[b].node = n
                                /\ boxes[b].box_type \in {"BlockNode", "InlineNode"}})
                   = IF Visible(n) THEN 1 ELSE 0
        /\ \A b \in TreeBoxes :
               boxes[b].box_type = "AnonymousBlock" <=> boxes[b].node = 0

\* a tree was built from a style tree with a display:none node that has a
\* child, next to a node that is laid out
C6_Witness ==
    /\ Built
    /\ \E n \in 2..Len(styled) : IsNone(n) /\ styled[n].children # <<>>
    /\ \E n \in 2..Len(styled) : Visible(n)

\* C7: build_layout_tree panics, returning no tree, exactly when the root
\* styled node is display:none.
C7_PanicsIffRootIsNone ==
    pcBuild = "built" =>
        /\ panicked <=> IsNone(1)
        /\ panicked => boxes = <<>>
        /\ ~panicked => boxes # <<>>

\* a tree was built although nodes below the root are display:none
C7_Witness ==
    /\ Built
    /\ \E n, q \in 2..Len(styled) : IsNone(n) /\ IsNone(q) /\ ParentOf(q) = 1 /\ ParentOf(n) # 1

\* C8: display() is Block exactly for the keyword block, None exactly for
\* the keyword none, and Inline otherwise: for an absent `display`, another
\* keyword, a length or a colour.
C8_DisplayClassification ==
    displayNode # 0 =>
        LET sv == styled[displayNode].specified_values IN
        /\ displayResult \in {"Block", "None", "Inline"}
        /\ displayResult = "Block" <=>
               ("display" \in DOMAIN sv /\ sv["display"] = Keyword("block"))
        /\ displayResult = "None" <=>
               ("display" \in DOMAIN sv /\ sv["display"] = Keyword("none"))
        /\ "display" \notin DOMAIN sv => displayResult = "Inline"
        /\ ("display" \in DOMAIN sv /\ sv["display"].kind # "Keyword") =>
               displayResult = "Inline"
        /\ ("display" \in DOMAIN sv /\ sv["display"].kind = "Keyword"
                /\ sv["display"].s \notin {"block", "none"}) =>
               displayResult = "Inline"

\* display() has classified a node whose `display` is a length, next to a
\* width and a margin
C8_Witness ==
    /\ displayNode # 0
    /\ displayResult = "Inline"
    /\ "display" \in DOMAIN styled[displayNode].specified_values
    /\ styled[displayNode].specified_values["display"].kind = "Length"
    /\ {"width", "margin"} \subseteq DOMAIN styled[displayNode].specified_values

----------------------------------------------------------------------------
\* Properties of the block layout solver.

\* the levels of the layout tree below and including box b
RECURSIVE NestingDepth(_)
NestingDepth(b) ==
    LET below == {NestingDepth(boxes[b].children[i]) : i \in 1..Len(boxes[b].children)}
    IN IF below = {} THEN 1 ELSE 1 + (CHOOSE m \in below : \A x \in below : x <= m)

\* the calls of layout that are on the stack
LayoutCalls == {k \in 1..Len(stack) : stack[k].fn = "layout"}

\* C9: the layout pass does not run out of stack, and the calls of layout
\* on the stack are never more than the levels of the layout tree.
C9_DepthWithinNesting ==
    pcLayout \in {"running", "done", "overflow"} =>
        /\ pcLayout # "overflow"
        /\ Cardinality(LayoutCalls) <= NestingDepth(1)

\* the used value of a property is zero
ZeroEdge(node, name, fallback_name) == lookup(node, name, fallback_name, Length(0)) = Length(0)

\* a block whose `width` is auto and whose horizontal margins, borders and
\* paddings are zero
AutoWidthNoEdges(b) ==
    /\ boxes[b].box_type = "BlockNode"
    /\ LET node == styled[boxes[b].node] IN
       /\ value(node, "width") \in {None, Some(Keyword("auto"))}
       /\ ZeroEdge(node, "margin-left", "margin")
       /\ ZeroEdge(node, "margin-right", "margin")
       /\ ZeroEdge(node, "border-left-width", "border-width")
       /\ ZeroEdge(node, "border-right-width", "border-width")
       /\ ZeroEdge(node, "padding-left", "padding")
       /\ ZeroEdge(node, "padding-right", "padding")

\* C10: once a block box with `width` auto and no margins, borders or
\* paddings is laid out, its content width is the content width of its
\* containing block.
C10_AutoWidthFillsContainer ==
    (pcLayout = "done" /\ AutoWidthNoEdges(1)) =>
        boxes[1].dimensions.content.width = viewport.content.width

----------------------------------------------------------------------------
\* Properties of the width and position steps.

\* the specified value of an edge property, 0 when it is not given
Specified(node, name, fallback_name) == lookup(node, name, fallback_name, Length(0))

\* the specified value of `width`, auto when it is not given
SpecifiedWidth(node) ==
    IF "width" \in DOMAIN node.specified_values THEN node.specified_values["width"]
    ELSE Keyword("auto")

IsAuto(v) == v = Keyword("auto")

\* width, paddings and borders of a node, auto counted as 0
NonMarginWidth(node) ==
    to_px(SpecifiedWidth(node))
        + to_px(Specified(node, "padding-left", "padding"))
        + to_px(Specified(node, "padding-right", "padding"))
        + to_px(Specified(node, "border-left-width", "border-width"))
        + to_px(Specified(node, "border-right-width", "border-width"))

\* width, paddings, borders and margins of a node, auto counted as 0
TotalWidth(node) ==
    NonMarginWidth(node) + to_px(Specified(node, "margin-left", "margin"))
        + to_px(Specified(node, "margin-right", "margin"))

\* the step has run on box b
Resolved(b, step) == \E k \in 1..Len(trace) : trace[k] = Step(b, step)

\* the root box is a block laid out by layout_block in the viewport
RootBlock == boxes # <<>> /\ boxes[1].box_type = "BlockNode"

\* C11: once a block box with an explicit width that fits its container and
\* with both horizontal margins auto is laid out, its margin.left and
\* margin.right are each half of what the width, paddings and borders leave
\* of the containing block's content width.
C11_AutoMarginsCentre ==
    LET node == styled[boxes[1].node]
        d == boxes[1].dimensions
    IN (/\ pcLayout = "done"
        /\ RootBlock
        /\ ~IsAuto(SpecifiedWidth(node))
        /\ IsAuto(Specified(node, "margin-left", "margin"))
        /\ IsAuto(Specified(node, "margin-right", "margin"))
        /\ NonMarginWidth(node) <= viewport.content.width)
       => /\ d.margin.left = d.margin.right
          /\ 2 * d.margin.left = viewport.content.width - NonMarginWidth(node)

\* C13: once the position of a block box is resolved, its content.x is the
\* containing block's content.x plus the margin, border and padding the width
\* step resolved for its left side, and its content.y is the containing
\* block's content.y plus content.height plus its top margin (auto being 0),
\* border and padding.
C13_BlockPosition ==
    LET node == styled[boxes[1].node]
        d == boxes[1].dimensions
    IN (RootBlock /\ Resolved(1, "position")) =>
        /\ d.content.x = viewport.content.x + to_px(locals.margin_left)
                             + to_px(locals.border_left) + to_px(locals.padding_left)
        /\ d.content.y = viewport.content.y + viewport.content.height
                             + to_px(Specified(node, "margin-top", "margin"))
                             + to_px(Specified(node, "border-top-width", "border-width"))
                             + to_px(Specified(node, "padding-top", "padding"))

\* C19: once the width of a block box is resolved, the margins, borders,
\* paddings and content width stored for the box add up to the content width
\* of its containing block.
C19_WidthsFillContainer ==
    (RootBlock /\ Resolved(1, "width")) =>
        LET d == boxes[1].dimensions
        IN d.margin.left + d.border.left + d.padding.left + d.content.width
               + d.padding.right + d.border.right + d.margin.right
           = viewport.content.width

\* the box is over-constrained: its `width` is not auto and its width,
\* margins, borders and paddings exceed the containing block's content width
OverConstrained(node) ==
    ~IsAuto(SpecifiedWidth(node)) /\ TotalWidth(node) > viewport.content.width

\* C20: the width step on an over-constrained block box resolves margin-left
\* to its specified value, an auto margin-left to 0, and margin-right to its
\* specified value, 0 if it was auto, plus the negative underflow; the width
\* stays as specified.
C20_OverConstrained ==
    LET node == styled[boxes[1].node]
    IN (RootBlock /\ Resolved(1, "width") /\ OverConstrained(node)) =>
        /\ locals.width = SpecifiedWidth(node)
        /\ locals.margin_left.kind = "Length"
        /\ locals.margin_right.kind = "Length"
        /\ to_px(locals.margin_left) = to_px(Specified(node, "margin-left", "margin"))
        /\ to_px(locals.margin_right) =
               to_px(Specified(node, "margin-right", "margin"))
                   + (viewport.content.width - TotalWidth(node))
        /\ to_px(locals.margin_right) < to_px(Specified(node, "margin-right", "margin"))

C20_Witness ==
    LET node == styled[boxes[1].node]
    IN /\ RootBlock
       /\ Resolved(1, "width")
       /\ OverConstrained(node)
       /\ IsAuto(Specified(node, "margin-left", "margin"))
       /\ IsAuto(Specified(node, "margin-right", "margin"))
       /\ to_px(locals.margin_left) = 0
       /\ to_px(locals.margin_right) < 0

\* C21: the width step on a block box whose `width` is auto resolves each
\* margin to its specified value, an auto margin to 0; the width is the
\* underflow when that is not negative; it is 0 otherwise, and margin-right
\* then takes the negative underflow as well.  The width is never negative.
C21_AutoWidth ==
    LET node == styled[boxes[1].node]
        underflow == viewport.content.width - TotalWidth(node)
    IN (RootBlock /\ Resolved(1, "width") /\ IsAuto(SpecifiedWidth(node))) =>
        /\ locals.margin_left.kind = "Length"
        /\ locals.margin_right.kind = "Length"
        /\ locals.width.kind = "Length"
        /\ to_px(locals.margin_left) = to_px(Specified(node, "margin-left", "margin"))
        /\ to_px(locals.width) = IF underflow >= 0 THEN underflow ELSE 0
        /\ to_px(locals.margin_right) =
               to_px(Specified(node, "margin-right", "margin"))
                   + (IF underflow >= 0 THEN 0 ELSE underflow)
        /\ to_px(locals.width) >= 0

C21_Witness ==
    LET node == styled[boxes[1].node]
    IN /\ RootBlock
       /\ Resolved(1, "width")
       /\ IsAuto(SpecifiedWidth(node))
       /\ IsAuto(Specified(node, "margin-left", "margin"))
       /\ viewport.content.width < TotalWidth(node)
       /\ to_px(locals.width) = 0
       /\ to_px(locals.margin_right) < to_px(Specified(node, "margin-right", "margin"))

\* the margin-box heights of the first n of the boxes kids, added up
RECURSIVE MarginBoxHeights(_, _)
MarginBoxHeights(kids, n) ==
    IF n = 0 THEN 0
    ELSE MarginBoxHeights(kids, n - 1) + margin_box(boxes[kids[n]].dimensions).height

\* the children of box b that layout_block_children has laid out
LaidOut(b) ==
    IF \E k \in 1..Len(stack) : stack[k].fn = "layout_block" /\ stack[k].box = b
    THEN LET k == CHOOSE k \in 1..Len(stack) :
                      stack[k].fn = "layout_block" /\ stack[k].box = b
         IN IF stack[k].pc = "children" THEN stack[k].i - 1
            ELSE IF stack[k].pc = "height" THEN Len(boxes[b].children) ELSE 0
    ELSE IF Resolved(b, "height") THEN Len(boxes[b].children) ELSE 0

\* C14: layout_block on a block box lays out each of its children in turn;
\* when i children are laid out the content height of the box is the sum of
\* their margin-box heights, and each block child has been placed at the
\* container's content.y plus the margin-box heights of the children before
\* it plus its own top margin, border and padding.
C14_ChildrenStacked ==
    (RootBlock /\ Resolved(1, "position")) =>
        LET kids == boxes[1].children
            d == boxes[1].dimensions
        IN /\ pcLayout # "overflow"
           /\ ~Resolved(1, "height") =>
                  d.content.height = MarginBoxHeights(kids, LaidOut(1))
           /\ \A i \in 1..LaidOut(1) :
                  boxes[kids[i]].box_type = "BlockNode" =>
                      LET c == boxes[kids[i]].dimensions
                      IN c.content.y = d.content.y + MarginBoxHeights(kids, i - 1)
                                           + c.margin.top + c.border.top + c.padding.top

\* the node has an explicit length as its `height`
ExplicitHeight(node) ==
    /\ "height" \in DOMAIN node.specified_values
    /\ node.specified_values["height"].kind = "Length"

\* C15: once a block box is laid out, its content height is its `height`
\* when that is a length, whatever its children, and the sum of the
\* margin-box heights of its children otherwise.
C15_BlockHeight ==
    (pcLayout = "done" /\ RootBlock) =>
        LET node == styled[boxes[1].node]
            kids == boxes[1].children
        IN boxes[1].dimensions.content.height =
               IF ExplicitHeight(node) THEN node.specified_values["height"].n
               ELSE MarginBoxHeights(kids, Len(kids))

C15_Witness ==
    /\ pcLayout = "done"
    /\ RootBlock
    /\ ExplicitHeight(styled[boxes[1].node])
    /\ boxes[1].children # <<>>
    /\ boxes[1].dimensions.content.height = to_px(Length(50))

----------------------------------------------------------------------------
\* Properties of the specificity order.

\* the ids (0 or 1), the classes and the tag names (0 or 1) of a selector
IdCount(sel) == IF sel.id = None THEN 0 ELSE 1
ClassCount(sel) == Len(sel.class)
TagCount(sel) == IF sel.tag_name = None THEN 0 ELSE 1

\* selector x outranks selector y: more ids, or as many ids and more classes,
\* or as many of both and more tag names
Outranks(x, y) ==
    \/ IdCount(x) > IdCount(y)
    \/ IdCount(x) = IdCount(y) /\ ClassCount(x) > ClassCount(y)
    \/ IdCount(x) = IdCount(y) /\ ClassCount(x) = ClassCount(y) /\ TagCount(x) > TagCount(y)

\* C17: the specificity of a selector is (ids, classes, tag names), and the
\* order the sort by specificity leaves the selectors in is the lexicographic
\* one: no selector stands before one it outranks, so one with an id never
\* stands before one without, whatever their classes and tags.
C17_LexicographicSpecificity ==
    pcStyle = "sorted" =>
        LET sorted == stylesheet[1].selectors IN
        /\ \A i \in 1..Len(sorted) :
               specificity(sorted[i]) =
                   <<IdCount(sorted[i]), ClassCount(sorted[i]), TagCount(sorted[i])>>
        /\ \A i, j \in 1..Len(sorted) : i < j => ~Outranks(sorted[i], sorted[j])

C17_Witness ==
    /\ pcStyle = "sorted"
    /\ Len(stylesheet[1].selectors) = 2
    /\ stylesheet[1].selectors[1] =
           SimpleSelector(Some("p"), None, <<<<"a">>, <<"b">>>>)
    /\ stylesheet[1].selectors[2] = SimpleSelector(None, Some("a"), <<>>)

\* the selectors of list s that rank as selector x does, in the order of s
RankedAs(s, x) == SelectSeq(s, LAMBDA y : ~Outranks(x, y) /\ ~Outranks(y, x))

----------------------------------------------------------------------------
\* Properties of the order of the steps.

\* the box whose child c is
BoxParent(c) ==
    CHOOSE b \in 1..Len(boxes) :
        \E i \in 1..Len(boxes[b].children) : boxes[b].children[i] = c

\* step s of box b is among the first n steps of the pass
Within(n, b, s) == \E k \in 1..n : trace[k] = Step(b, s)

\* C18: the position of a block box is resolved after its width, the layout
\* of a child starts after the width and the position of its parent and
\* before the parent's height, and the height of a box is resolved after its
\* position and after the layout of each of its children has returned.
C18_StepOrder ==
    \A k \in 1..Len(trace) :
        LET b == trace[k].box
            s == trace[k].step
        IN /\ s = "position" => Within(k - 1, b, "width")
           /\ s = "layout" =>
                  /\ Within(k - 1, BoxParent(b), "width")
                  /\ Within(k - 1, BoxParent(b), "position")
                  /\ ~Within(k - 1, BoxParent(b), "height")
           /\ s = "height" =>
                  /\ Within(k - 1, b, "width")
                  /\ Within(k - 1, b, "position")
                  /\ \A i \in 1..Len(boxes[b].children) :
                         /\ Within(k - 1, boxes[b].children[i], "layout")
                         /\ Within(k - 1, boxes[b].children[i], "returned")

C18_Witness ==
    /\ pcLayout = "done"
    /\ RootBlock
    /\ boxes[1].children # <<>>
    /\ trace = <<Step(1, "width"), Step(1, "position"),
                 Step(boxes[1].children[1], "layout"),
                 Step(boxes[1].children[1], "returned"), Step(1, "height")>>

\* C23: a step of the layout pass leaves the stylesheet, the document and
\* the style tree as they are and, of the layout tree, changes Dimensions
\* only, and those of BlockNode boxes only.
C23_LayoutChangesDimensionsOnly ==
    [][pcLayout = "running" =>
          /\ stylesheet' = stylesheet
          /\ document' = document
          /\ styled' = styled
          /\ Len(boxes') = Len(boxes)
          /\ \A b \in 1..Len(boxes) :
                 /\ boxes'[b].children = boxes[b].children
                 /\ boxes'[b].box_type = boxes[b].box_type
                 /\ boxes'[b].node = boxes[b].node
                 /\ boxes[b].box_type \in {"InlineNode", "AnonymousBlock"} =>
                        boxes'[b].dimensions = boxes[b].dimensions]_vars

C23_Witness ==
    /\ pcLayout = "done"
    /\ RootBlock
    /\ boxes[1].dimensions # DimensionsDefault
    /\ \E b \in 2..Len(boxes) :
           /\ boxes[b].box_type = "AnonymousBlock"
           /\ boxes[b].dimensions = DimensionsDefault
           /\ Resolved(b, "returned")
    /\ \E b \in 2..Len(boxes) : boxes[b].box_type = "InlineNode"

----------------------------------------------------------------------------
\* Properties of the pipeline.

\* stylesheet `div { width: 100px; margin: auto; }`, document `<div></div>`,
\* viewport of content width 200px
ScenarioA ==
    /\ stylesheet = <<Rule(<<SimpleSelector(Some("div"), None, <<>>)>>,
                           <<Declaration("width", Length(100)),
                             Declaration("margin", Keyword("auto"))>>)>>
    /\ document = <<Node(ElementNode(Element("div", EmptyMap)), <<>>)>>
    /\ viewport.content.width = to_px(Length(200))

\* the layout pass has ended, by returning or by exhausting the stack
LayoutEnded == pcLayout \in {"done", "overflow"}

\* C12 as stated: scenario A ends with a root box of content width 100px
\* and margin-left = margin-right = 50px.
C12_ScenarioACentred ==
    (ScenarioA /\ LayoutEnded) =>
        /\ pcLayout = "done"
        /\ boxes[1].dimensions.content.width = to_px(Length(100))
        /\ boxes[1].dimensions.margin.left = to_px(Length(50))
        /\ boxes[1].dimensions.margin.right = to_px(Length(50))

\* C12, amended: in scenario A the <div> has no `display`, so it is inline:
\* the pipeline ends with the root box an InlineNode box without children,
\* all of whose dimensions layout has left at 0.
C12_ScenarioAInlineRoot ==
    (ScenarioA /\ LayoutEnded) =>
        /\ pcLayout = "done"
        /\ styled[1].specified_values =
               [k \in {"width", "margin"} |->
                   IF k = "width" THEN Length(100) ELSE Keyword("auto")]
        /\ boxes = <<[dimensions |-> DimensionsDefault, box_type |-> "InlineNode",
                      node |-> 1, children |-> <<>>]>>

C12_Witness == ScenarioA /\ pcLayout = "done" /\ boxes # <<>>

\* the DOM nodes of the StyledNodes kids, in their order
NodesOf(kids) == [i \in 1..Len(kids) |-> styled[kids[i]].node]

\* C16: the style tree has one StyledNode per node of the document, the root
\* for the root and the children of each for the children of its node, in
\* document order; the StyledNode of an Element carries the specified values
\* of the element under the stylesheet, that of a Text an empty map.
C16_StyleTreeMirrorsDocument ==
    pcStyle = "styled" =>
        /\ Len(styled) = Len(document)
        /\ styled[1].node = 1
        /\ \A i, j \in 1..Len(styled) : styled[i].node = styled[j].node => i = j
        /\ \A i \in 1..Len(styled) :
               LET of == document[styled[i].node] IN
               /\ styled[i].node \in 1..Len(document)
               /\ NodesOf(styled[i].children) = of.children
               /\ styled[i].specified_values =
                      IF of.node_type.kind = "Element"
                      THEN specified_values(of.node_type.element, stylesheet)
                      ELSE EmptyMap

C16_Witness ==
    /\ pcStyle = "styled"
    /\ Len(document) = MaxDocNodes
    /\ \E i \in 1..Len(styled) :
           /\ document[styled[i].node].node_type.kind = "Text"
           /\ styled[i].specified_values = EmptyMap
    /\ \E i \in 1..Len(styled) :
           /\ styled[i].specified_values # EmptyMap
           /\ Len(styled[i].children) = 2


\* The boxes whose styled node the layout pass has asked for: each of
\* calculate_block_width, calculate_block_position and calculate_block_height
\* starts with self.get_style_node().
AskedByLayout ==
    {trace[k].box : k \in {j \in 1..Len(trace) :
                               trace[j].step \in {"width", "position", "height"}}}

\* C24: neither a step of the layout pass nor the building of the display
\* list asks an AnonymousBlock box for its styled node.
C24_AnonymousBlockNeverAsked ==
    \A b \in AskedByLayout \cup asked : boxes[b].box_type # "AnonymousBlock"

\* the layout pass has returned and the display list is built from a tree
\* that holds an AnonymousBlock box beside boxes that were asked
C24_Witness ==
    /\ pcPaint = "painted"
    /\ \E b \in 1..Len(boxes) : boxes[b].box_type = "AnonymousBlock"
    /\ AskedByLayout # {}
    /\ asked # {}


----------------------------------------------------------------------------
\* Properties of the display list.

\* the specified values of the node of box b name the property
HasProperty(b, name) == name \in DOMAIN styled[boxes[b].node].specified_values

\* rectangle r lies inside rectangle outer
Inside(r, outer) ==
    /\ outer.x <= r.x
    /\ outer.y <= r.y
    /\ r.x + r.width <= outer.x + outer.width
    /\ r.y + r.height <= outer.y + outer.height

\* C26: for a box with a border colour the display list holds, after the
\* background, exactly four rectangles, each inside the border box of the box
\* and as thick as the border of its own edge (top, right, bottom, left),
\* the right one ending at the right edge of the border box.
C26_BorderRectangles ==
    (pcPaint = "painted" /\ Len(boxes) = 1 /\ HasProperty(1, "border-color")) =>
        LET d == boxes[1].dimensions
            bb == Rect(d.content.x - d.padding.left - d.border.left,
                       d.content.y - d.padding.top - d.border.top,
                       d.content.width + d.padding.left + d.padding.right
                           + d.border.left + d.border.right,
                       d.content.height + d.padding.top + d.padding.bottom
                           + d.border.top + d.border.bottom)
            n == IF HasProperty(1, "background") THEN 1 ELSE 0
        IN /\ Len(display_list) = n + 4
           /\ \A k \in 1..4 : Inside(display_list[n + k].rect, bb)
           /\ display_list[n + 1].rect.height = d.border.top
           /\ display_list[n + 2].rect.width = d.border.right
           /\ display_list[n + 3].rect.height = d.border.bottom
           /\ display_list[n + 4].rect.width = d.border.left
           /\ display_list[n + 2].rect.x + display_list[n + 2].rect.width = bb.x + bb.width

====
